---------------------------- MODULE Spec2Model ----------------------------
(***************************************************************************)
(* volumina/view3d/volumeRendering.py: LabelManager (the label allocator)  *)
(* and RenderingManager (volume store and reconciliation of the rendered   *)
(* objects against the label volume).                                      *)
(*                                                                         *)
(* The overview scene and the MeshGenerator are collaborators whose code   *)
(* is not part of volumeRendering.py; they are modelled from their         *)
(* documented contract (a visible-object set handed out by reference, a    *)
(* geometry cache behind has_object, a busy flag; a worker that calls back *)
(* once per label and then once with (0, None)).                           *)
(***************************************************************************)
EXTENDS Integers, Sequences, FiniteSets, Bags, TLC

\* ---------------------------------------------------------------- constants
NOBJECTS == 256
BG_LABEL == 0
CURRENT_LABEL == 1
\* numpy.uint8: the element type of the buffer allocated by setup()
UINT8_RANGE == 256

\* ------------------------------------------------------------------- bounds
\* largest label value a caller writes into a volume
MaxLabel == 2
\* generation batches that may be in flight together
MaxBatches == 2
\* largest capacity of a stand-alone LabelManager(n)
MaxN == 6
\* how far beyond the 8-bit range the wide inputs reach
MaxWide == 1
\* objects a caller keeps allocated together, where every operation is mixed
MaxObjects == 2

Threads == {"MainThread", "Thread-1"}
\* data shapes announced by the scene (external axis order)
Shapes == {<<1, 1, 2>>}
\* the data shape and the label values of end-to-end scenario 2
ScenarioShapes == {<<1, 1, 3>>}
ScenarioLabels == {0, 2, 3, 4}
\* the values stored where threads interleave: background and the label of
\* the object being edited
EditLabels == {BG_LABEL, CURRENT_LABEL}
\* the colors callers pass, and the color addObject() draws for color=None
Colors == {"red"}
random_color == "hsv"
\* the labels freed around exhaustion: the smallest and the largest
ExhaustFrees == {CURRENT_LABEL, NOBJECTS - 1}

VARIABLES
    _available, _used, _n,      \* LabelManager
    ready, _volume, _dirty,     \* RenderingManager
    _cmap,                      \* RenderingManager: the color of each label
    pc,                         \* where each thread is: "idle"; "pass", inside
                                \* update() with the dirty flag just cleared;
                                \* "setter", inside the setter with the value
                                \* copied and the dirty flag not yet set
    _mesh_thread,               \* RenderingManager: handle of the latest worker
    visible_objects, cache, busy,   \* overview scene
    batches,                    \* MeshGenerator jobs in flight: a bag of the label
                                \* sets each has still to call back with
    last                        \* the last call: its inputs, commands and result

vars == <<_available, _used, _n, ready, _volume, _dirty, _cmap, pc, _mesh_thread,
          visible_objects, cache, busy, batches, last>>
labelmgr == <<_available, _used, _n>>
scene == <<visible_objects, cache, busy>>

\* ---------------------------------------------------------- numpy arrays
\* An array is a function from index tuples (0-based) to integers.
Reverse(s) == [i \in 1..Len(s) |-> s[Len(s) + 1 - i]]

MaxExtent(shape) == CHOOSE m \in {shape[d] : d \in DOMAIN shape} :
                        \A d \in DOMAIN shape : shape[d] <= m

Indices(shape) == {idx \in [DOMAIN shape -> 0..(MaxExtent(shape) - 1)] :
                       \A d \in DOMAIN shape : idx[d] < shape[d]}

\* numpy.zeros(shape, dtype=numpy.uint8)
zeros(shape) == [idx \in Indices(shape) |-> 0]

\* numpy.transpose(a): all axes reversed
transpose(a) == [idx \in {Reverse(i) : i \in DOMAIN a} |-> a[Reverse(idx)]]

\* storing an integer into a uint8 element
astype_uint8(x) == x % UINT8_RANGE

\* numpy.unique(a), as a set
unique(a) == {a[idx] : idx \in DOMAIN a}

\* numpy.any(a != b) for arrays of the same shape
any_differs(a, b) == \E idx \in DOMAIN a : a[idx] # b[idx]

\* self._volume[:] = new_volume
assign_all(new_volume) == [idx \in DOMAIN new_volume |-> astype_uint8(new_volume[idx])]

\* ------------------------------------------------------------ LabelManager
min(S) == CHOOSE x \in S : \A y \in S : x <= y

\* The record of one call: the operation, the calling thread, its argument
\* (<< >> when it has none), the label it returned (0 when none), whether
\* it raised, whether it assigned _dirty = True, whether a reconciliation
\* pass ran, the commands it sent to the scene and the label set it handed
\* to a new MeshGenerator.
Call(op, thread, arg, ret, raised, dirtied, ran, cmds, gen) ==
    [op |-> op, thread |-> thread, arg |-> arg, ret |-> ret, raised |-> raised,
     dirtied |-> dirtied, ran |-> ran, cmds |-> cmds, generate |-> gen]

\* a call that returns nothing and touches neither scene nor worker
Plain(op, thread, arg, raised) ==
    Call(op, thread, arg, 0, raised, FALSE, FALSE, {}, {})

LabelManagerInit(n) ==
    /\ _available = 1..(n - 1)
    /\ _used = {}
    /\ _n = n

\* the last free label is never handed out
request_raises_early == Cardinality(_available) <= 1

request_raises == Cardinality(_available) = 0

max(S) == CHOOSE x \in S : \A y \in S : y <= x

\* the largest free label is handed out
request_label_max == max(_available)

request_label == min(_available)

\* LabelManager.request()
Request ==
    IF request_raises
    THEN /\ UNCHANGED <<labelmgr, _cmap, pc, ready, _volume, _dirty, _mesh_thread, scene, batches>>
         /\ last' = Plain("request", "MainThread", << >>, TRUE)
    ELSE /\ _available' = _available \ {request_label}
         /\ _used' = _used \cup {request_label}
         /\ UNCHANGED <<_n, _cmap, pc, ready, _volume, _dirty, _mesh_thread, scene, batches>>
         /\ last' = Call("request", "MainThread", << >>, request_label, FALSE, FALSE,
                         FALSE, {}, {})

free_used(label) == IF label \in _used THEN _used \ {label} ELSE _used

\* the freed label is not handed back
free_available_lost(label) == _available

\* the label is handed back whether it was in use or not
free_available_always(label) == _available \cup {label}

free_available(label) == IF label \in _used THEN _available \cup {label}
                         ELSE _available

\* LabelManager.free(label) with a label
Free(label) ==
    /\ _used' = free_used(label)
    /\ _available' = free_available(label)
    /\ UNCHANGED <<_n, _cmap, pc, ready, _volume, _dirty, _mesh_thread, scene, batches>>
    /\ last' = Plain("free", "MainThread", label, FALSE)

\* free(None) leaves the free labels as they are
free_all_available_kept == _available

\* set(range(1, self._n))
free_all_available == 1..(_n - 1)

\* LabelManager.free(None)
FreeAll ==
    /\ _used' = {}
    /\ _available' = free_all_available
    /\ UNCHANGED <<_n, _cmap, pc, ready, _volume, _dirty, _mesh_thread, scene, batches>>
    /\ last' = Plain("free(None)", "MainThread", "None", FALSE)

\* --------------------------------------------------------- RenderingManager
Init ==
    /\ LabelManagerInit(NOBJECTS)
    /\ ready = FALSE
    /\ _volume = << >>
    /\ _dirty = FALSE
    /\ _cmap = << >>
    /\ pc = [thread \in Threads |-> "idle"]
    /\ _mesh_thread = "None"
    /\ visible_objects = {}
    /\ cache = {}
    /\ busy = FALSE
    /\ batches = EmptyBag
    /\ last = Plain("__init__", "MainThread", << >>, FALSE)

\* ---- overview scene
\* scene.has_object(label): geometry for the label is cached
has_object(label) == label \in cache

\* scene.remove_object(label) for every label of `labels`, on the
\* visible-object set; the cached geometry stays
remove_objects(visible, labels) == visible \ labels

\* scene.add_object(label) and scene.add_object(label, mesh) for every label
\* of `labels`, on the visible-object set
add_objects(visible, labels) == visible \cup labels

\* ---- RenderingManager.update(): the label sets of one pass
new_labels(volume) == unique(volume) \ {BG_LABEL}

\* every visible label is removed
obsolete_all(old_labels, new) == old_labels

\* for label in old_labels - new_labels: remove_object(label)
obsolete(old_labels, new) == old_labels \ new

\* old_labels.remove(CURRENT_LABEL), KeyError ignored
without_current(old_labels) == old_labels \ {CURRENT_LABEL}

\* every label of the volume is added again
labels_to_add_all(new, old_labels) == new

labels_to_add(new, old_labels) == new \ old_labels

\* set(filter(has_object, labels_to_add)), then known.remove(CURRENT_LABEL)
known(to_add) == {label \in to_add : has_object(label)} \ {CURRENT_LABEL}

\* CURRENT_LABEL is not moved from known to generate
generate_uncached(to_add) == {label \in to_add : ~has_object(label)}

\* labels_to_add - known, then generate.add(CURRENT_LABEL) if it was known
generate(to_add) ==
    LET cached == {label \in to_add : has_object(label)}
    IN  (to_add \ cached) \cup (cached \cap {CURRENT_LABEL})

\* One dirty pass over `volume`: the commands it issues and the
\* visible-object set it leaves.  old_labels is the scene's own set, so
\* remove_object and old_labels.remove(CURRENT_LABEL) both act on it.
pass(volume) ==
    LET new      == new_labels(volume)
        removed  == obsolete(visible_objects, new)
        to_add   == labels_to_add(new,
                        without_current(remove_objects(visible_objects, removed)))
        from_cache == known(to_add)
        gen      == generate(to_add)
    IN  [cmds |-> {<<"remove_object", label>> : label \in removed}
                  \cup {<<"add_object", label, "cached">> : label \in from_cache}
                  \cup (IF gen # {} THEN {<<"set_busy", "True">>} ELSE {}),
         generate |-> gen,
         visible |-> add_objects(
                         without_current(remove_objects(visible_objects, removed)),
                         from_cache)]

\* the generation batches whose (0, None) callback is still to come
outstanding(jobs) == BagCardinality(jobs)

\* the guard passes on every thread
on_any_thread(thread) == TRUE

\* threading.current_thread().name == 'MainThread'
on_main_thread(thread) == thread = "MainThread"

\* the flag is never found clean
clean_never(dirty) == FALSE

\* if not self._dirty: return
clean(dirty) == ~dirty

\* RenderingManager.update() called by `thread` when the buffer holds
\* `volume` and the dirty flag is `dirty`; `op`, `arg` and `dirtied`
\* describe the public call that update() is part of.
update(thread, volume, dirty, op, arg, dirtied) ==
    IF ~on_main_thread(thread)
    THEN \* the assertion fails
         /\ _dirty' = dirty
         /\ UNCHANGED <<_mesh_thread, scene, batches>>
         /\ last' = Call(op, thread, arg, 0, TRUE, dirtied, FALSE, {}, {})
    ELSE IF clean(dirty)
    THEN /\ _dirty' = dirty
         /\ UNCHANGED <<_mesh_thread, scene, batches>>
         /\ last' = Call(op, thread, arg, 0, FALSE, dirtied, FALSE, {}, {})
    ELSE LET p == pass(volume)
             started == p.generate # {}
         IN  /\ _dirty' = FALSE
             /\ visible_objects' = p.visible
             /\ cache' = cache
             /\ busy' = IF started THEN TRUE ELSE busy
             /\ batches' = IF started THEN batches (+) SetToBag({p.generate})
                                       ELSE batches
             /\ _mesh_thread' = IF started THEN "MeshGenerator" ELSE _mesh_thread
             /\ outstanding(batches') <= MaxBatches
             /\ last' = Call(op, thread, arg, 0, FALSE, dirtied, TRUE, p.cmds,
                             p.generate)

\* RenderingManager.setup(shape)
Setup(shape) ==
    /\ _volume' = zeros(Reverse(shape))
    /\ ready' = TRUE
    /\ UNCHANGED <<labelmgr, _cmap, pc, _dirty, _mesh_thread, scene, batches>>
    /\ last' = Plain("setup", "MainThread", shape, FALSE)

\* _handle_scene_init, the slot of scene.reinitialized: setup(), update()
HandleSceneInit(shape) ==
    /\ _volume' = zeros(Reverse(shape))
    /\ ready' = TRUE
    /\ UNCHANGED <<labelmgr, _cmap, pc>>
    /\ update("MainThread", _volume', _dirty, "_handle_scene_init", shape, FALSE)

\* RenderingManager.update()
Update(thread) ==
    /\ UNCHANGED <<labelmgr, _cmap, pc, ready, _volume>>
    /\ update(thread, _volume, _dirty, "update", << >>, FALSE)

\* update() on the control thread up to `self._dirty = False`: the
\* assertion passes, a clean flag returns, a dirty one is cleared
UpdateBegin ==
    /\ pc["MainThread"] = "idle"
    /\ IF clean(_dirty)
       THEN /\ UNCHANGED <<_dirty, pc>>
            /\ last' = Call("update", "MainThread", << >>, 0, FALSE, FALSE, FALSE,
                            {}, {})
       ELSE /\ _dirty' = FALSE
            /\ pc' = [pc EXCEPT !["MainThread"] = "pass"]
            /\ last' = Plain("update:dirty=False", "MainThread", << >>, FALSE)
    /\ UNCHANGED <<labelmgr, _cmap, ready, _volume, _mesh_thread, scene, batches>>

\* the pass clears the flag once more when it ends
dirty_cleared_after_pass == FALSE

\* the dirty flag when update() returns: not assigned after it was cleared
dirty_after_pass == _dirty

\* update() on the control thread from the read of the volume to its end
UpdateFinish ==
    /\ pc["MainThread"] = "pass"
    /\ LET p == pass(_volume)
           started == p.generate # {}
       IN  /\ visible_objects' = p.visible
           /\ cache' = cache
           /\ busy' = IF started THEN TRUE ELSE busy
           /\ batches' = IF started THEN batches (+) SetToBag({p.generate})
                                     ELSE batches
           /\ _mesh_thread' = IF started THEN "MeshGenerator" ELSE _mesh_thread
           /\ outstanding(batches') <= MaxBatches
           /\ last' = Call("update", "MainThread", << >>, 0, FALSE, FALSE, TRUE,
                           p.cmds, p.generate)
    /\ _dirty' = dirty_after_pass
    /\ pc' = [pc EXCEPT !["MainThread"] = "idle"]
    /\ UNCHANGED <<labelmgr, _cmap, ready, _volume>>

\* the buffer is handed out as stored
volume_as_stored == _volume

\* the volume property: numpy.transpose(self._volume)
volume == transpose(_volume)

\* the arrays a caller can pass to the volume setter: the scene's data shape
ExternalIndices == {Reverse(idx) : idx \in DOMAIN _volume}

\* the comparison looks at the label sets only
setter_changed_labels(value) == unique(value) # unique(_volume)

\* the volume setter: numpy.any(new_volume != self._volume)
setter_changed(value) == any_differs(transpose(value), _volume)

\* RenderingManager.volume = value
SetVolume(thread, value) ==
    /\ ready
    /\ UNCHANGED <<labelmgr, _cmap, pc, ready>>
    /\ IF setter_changed(value)
       THEN /\ _volume' = assign_all(transpose(value))
            /\ update(thread, _volume', TRUE, "volume.setter", value, TRUE)
       ELSE /\ UNCHANGED <<_volume, _dirty, _mesh_thread, scene, batches>>
            /\ last' = Plain("volume.setter", thread, value, FALSE)

\* the setter called by `thread` up to `self._volume[:] = new_volume`
SetterCopy(thread, value) ==
    /\ ready
    /\ pc[thread] = "idle"
    /\ IF setter_changed(value)
       THEN /\ _volume' = assign_all(transpose(value))
            /\ pc' = [pc EXCEPT ![thread] = "setter"]
            /\ last' = Plain("volume.setter:copied", thread, value, FALSE)
       ELSE /\ UNCHANGED <<_volume, pc>>
            /\ last' = Plain("volume.setter", thread, value, FALSE)
    /\ UNCHANGED <<labelmgr, _cmap, ready, _dirty, _mesh_thread, scene, batches>>

\* the setter called by `thread` from `self._dirty = True` to its end; the
\* value it was called with is what the buffer now yields
SetterMark(thread) ==
    /\ pc[thread] = "setter"
    /\ update(thread, _volume, TRUE, "volume.setter", volume, TRUE)
    /\ pc' = [pc EXCEPT ![thread] = "idle"]
    /\ UNCHANGED <<labelmgr, _cmap, ready, _volume>>

\* a caller's write through the array the volume property returned:
\* rm.volume[idx] = x.  numpy.transpose returns a view of self._volume.
WriteView(idx, x) ==
    /\ ready
    /\ _volume' = [_volume EXCEPT ![Reverse(idx)] = astype_uint8(x)]
    /\ UNCHANGED <<labelmgr, _cmap, pc, ready, _dirty, _mesh_thread, scene, batches>>
    /\ last' = Plain("view_write", "MainThread", <<idx, x>>, FALSE)

\* RenderingManager.clear()
Clear ==
    IF ~ready
    THEN \* self._volume does not exist yet: AttributeError
         /\ UNCHANGED <<labelmgr, _cmap, pc, ready, _volume, _dirty, _mesh_thread, scene, batches>>
         /\ last' = Plain("clear", "MainThread", << >>, TRUE)
    ELSE /\ _volume' = [idx \in DOMAIN _volume |-> 0]
         /\ _used' = {}
         /\ _available' = free_all_available
         /\ UNCHANGED <<_n, _cmap, pc, ready, _dirty, _mesh_thread, scene, batches>>
         /\ last' = Plain("clear", "MainThread", << >>, FALSE)

\* self._cmap[label] = color
setColor(label, color) ==
    [l \in DOMAIN _cmap \cup {label} |-> IF l = label THEN color ELSE _cmap[l]]

\* RenderingManager.setColor(label, color)
SetColor(label, color) ==
    /\ _cmap' = setColor(label, color)
    /\ UNCHANGED <<labelmgr, pc, ready, _volume, _dirty, _mesh_thread, scene, batches>>
    /\ last' = Plain("setColor", "MainThread", <<label, color>>, FALSE)

\* the color addObject() stores: the one given, or a random hue
object_color(color) == IF color = "None" THEN random_color ELSE color

\* the color map after addObject() whose request() raised
addObject_cmap_raised(color) == _cmap

\* RenderingManager.addObject(color)
AddObject(color) ==
    IF request_raises
    THEN \* request() raises before setColor is reached
         /\ _cmap' = addObject_cmap_raised(color)
         /\ UNCHANGED <<labelmgr, pc, ready, _volume, _dirty, _mesh_thread, scene, batches>>
         /\ last' = Plain("addObject", "MainThread", color, TRUE)
    ELSE /\ _available' = _available \ {request_label}
         /\ _used' = _used \cup {request_label}
         /\ _cmap' = setColor(request_label, object_color(color))
         /\ UNCHANGED <<_n, pc, ready, _volume, _dirty, _mesh_thread, scene, batches>>
         /\ last' = Call("addObject", "MainThread", color, request_label, FALSE,
                         FALSE, FALSE, {}, {})

\* RenderingManager.removeObject(label)
RemoveObject(label) ==
    /\ _used' = free_used(label)
    /\ _available' = free_available(label)
    /\ UNCHANGED <<_n, _cmap, pc, ready, _volume, _dirty, _mesh_thread, scene, batches>>
    /\ last' = Plain("removeObject", "MainThread", label, FALSE)

\* RenderingManager._on_mesh_generated(label, mesh), mesh given
on_mesh(thread, label) ==
    IF ~on_main_thread(thread)
    THEN /\ UNCHANGED scene
         /\ last' = Plain("_on_mesh_generated", thread, <<label, "mesh">>, TRUE)
    ELSE /\ visible_objects' = add_objects(visible_objects, {label})
         /\ cache' = cache \cup {label}
         /\ busy' = busy
         /\ last' = Call("_on_mesh_generated", thread, <<label, "mesh">>, 0, FALSE, FALSE,
                         FALSE, {<<"add_object", label, "mesh">>}, {})

\* the (0, None) callback is acknowledged but the busy state is kept
on_finished_keeps_busy(thread) ==
    /\ UNCHANGED scene
    /\ last' = Call("_on_mesh_generated", thread, <<0, "None">>, 0, FALSE, FALSE,
                    FALSE, {<<"set_busy", "False">>}, {})

\* RenderingManager._on_mesh_generated(0, None)
on_finished(thread) ==
    IF ~on_main_thread(thread)
    THEN /\ UNCHANGED scene
         /\ last' = Plain("_on_mesh_generated", thread, <<0, "None">>, TRUE)
    ELSE /\ busy' = FALSE
         /\ UNCHANGED <<visible_objects, cache>>
         /\ last' = Call("_on_mesh_generated", thread, <<0, "None">>, 0, FALSE, FALSE,
                         FALSE, {<<"set_busy", "False">>}, {})

\* ---- MeshGenerator: the callbacks of the jobs in flight
\* a job hands over the mesh of one of its labels
MeshGenerated(job, label) ==
    /\ BagIn(job, batches)
    /\ label \in job
    /\ on_mesh("MainThread", label)
    /\ batches' = (batches (-) SetToBag({job})) (+) SetToBag({job \ {label}})
    /\ UNCHANGED <<labelmgr, _cmap, pc, ready, _volume, _dirty, _mesh_thread>>

\* a job that has handed over all its meshes signals (0, None)
BatchFinished ==
    /\ BagIn({}, batches)
    /\ on_finished("MainThread")
    /\ batches' = batches (-) SetToBag({{}})
    /\ UNCHANGED <<labelmgr, _cmap, pc, ready, _volume, _dirty, _mesh_thread>>

\* _on_mesh_generated(label, mesh) called by `thread` itself, not through
\* the queue that delivers a job's callbacks to the control thread
OnMeshGenerated(thread, label, mesh) ==
    /\ IF label = 0 /\ mesh = "None" THEN on_finished(thread)
                                      ELSE on_mesh(thread, label)
    /\ UNCHANGED <<labelmgr, _cmap, pc, ready, _volume, _dirty, _mesh_thread, batches>>

\* the values callers store: labels, and values beyond the 8-bit range
Labels == 0..MaxLabel
WideValues == (0..1) \cup (UINT8_RANGE..(UINT8_RANGE + MaxWide))

\* the arrays of the scene's data shape over the value set `values`
Volumes(values) == [ExternalIndices -> values]

\* arrays with at least one background voxel, listed once per multiset of
\* values (numpy.unique does not depend on where a value lies)
ScenarioVolumes ==
    {v \in Volumes(ScenarioLabels) :
        /\ BG_LABEL \in unique(v)
        /\ \A i, j \in DOMAIN v : (i[3] <= j[3]) => (v[i] <= v[j])}

\* Every public operation, called as the scheduling model prescribes: the
\* control thread owns volume mutation; update() may be called from anywhere.
Next ==
    \/ Clear
    \/ \E shape \in Shapes : Setup(shape)
    \/ \E shape \in Shapes : HandleSceneInit(shape)
    \/ \E thread \in Threads : Update(thread)
    \/ \E value \in Volumes(Labels) : SetVolume("MainThread", value)
    \/ \E idx \in ExternalIndices, x \in Labels : WriteView(idx, x)
    \/ \E job \in BagToSet(batches), label \in Labels : MeshGenerated(job, label)
    \/ BatchFinished

Spec == Init /\ [][Next]_vars

\* Volume changes through the setter only, and the worker's callbacks.
NextSetter ==
    \/ \E shape \in Shapes : ~ready /\ HandleSceneInit(shape)
    \/ \E thread \in Threads : Update(thread)
    \/ \E value \in Volumes(Labels) : SetVolume("MainThread", value)
    \/ \E job \in BagToSet(batches), label \in Labels : MeshGenerated(job, label)
    \/ BatchFinished

SpecSetter == Init /\ [][NextSetter]_vars

\* The same, on the data shape and the labels of end-to-end scenario 2.
NextScenario ==
    \/ \E shape \in ScenarioShapes : ~ready /\ HandleSceneInit(shape)
    \/ \E thread \in Threads : Update(thread)
    \/ \E value \in ScenarioVolumes : SetVolume("MainThread", value)
    \/ \E job \in BagToSet(batches), label \in ScenarioLabels : MeshGenerated(job, label)
    \/ BatchFinished

SpecScenario == Init /\ [][NextScenario]_vars

\* Every public operation, with values beyond the 8-bit range of the buffer.
NextWide ==
    \/ \E shape \in Shapes : Setup(shape)
    \/ \E shape \in Shapes : HandleSceneInit(shape)
    \/ \E thread \in Threads : Update(thread)
    \/ \E value \in Volumes(WideValues) : SetVolume("MainThread", value)
    \/ \E idx \in ExternalIndices, x \in Labels : WriteView(idx, x)
    \/ Clear
    \/ \E job \in BagToSet(batches), label \in Labels : MeshGenerated(job, label)
    \/ BatchFinished

SpecWide == Init /\ [][NextWide]_vars

\* a stand-alone LabelManager(n)
InitAlloc ==
    /\ \E n \in 1..MaxN : LabelManagerInit(n)
    /\ ready = FALSE
    /\ _volume = << >>
    /\ _dirty = FALSE
    /\ _cmap = << >>
    /\ pc = [thread \in Threads |-> "idle"]
    /\ _mesh_thread = "None"
    /\ visible_objects = {}
    /\ cache = {}
    /\ busy = FALSE
    /\ batches = EmptyBag
    /\ last = Plain("__init__", "MainThread", << >>, FALSE)

NextAlloc ==
    \/ Request
    \/ \E label \in 0..(MaxN + 1) : Free(label)
    \/ FreeAll

SpecAlloc == InitAlloc /\ [][NextAlloc]_vars

\* The object API of a RenderingManager with a few objects allocated, next
\* to the operations that fill and clear the volume.
NextObjects ==
    \/ \E shape \in Shapes : Setup(shape)
    \/ \E idx \in ExternalIndices, x \in Labels : WriteView(idx, x)
    \/ Clear
    \/ \E color \in Colors \cup {"None"} :
           Cardinality(_used) < MaxObjects /\ AddObject(color)
    \/ \E label \in 0..(MaxObjects + 1) : RemoveObject(label)
    \/ \E label \in 1..MaxObjects, color \in Colors : SetColor(label, color)

SpecObjects == Init /\ [][NextObjects]_vars

\* addObject() up to and beyond the capacity of LabelManager(NOBJECTS)
NextExhaust ==
    \/ AddObject("None")
    \/ \E label \in ExhaustFrees : RemoveObject(label)

SpecExhaust == Init /\ [][NextExhaust]_vars

\* Setter, update() and the completion callback, each called from the
\* control thread and from another thread.
NextThreads ==
    \/ \E shape \in Shapes : ~ready /\ HandleSceneInit(shape)
    \/ \E thread \in Threads : Update(thread)
    \/ \E thread \in Threads, value \in Volumes(EditLabels) :
           SetVolume(thread, value)
    \/ \E job \in BagToSet(batches), label \in EditLabels :
           MeshGenerated(job, label)
    \/ BatchFinished
    \/ \E label \in EditLabels, mesh \in {"mesh", "None"} :
           OnMeshGenerated("Thread-1", label, mesh)

SpecThreads == Init /\ [][NextThreads]_vars


\* The calls of every thread and a worker that goes on delivering: a job
\* with a label left eventually hands one over, and a job that has handed
\* over all its labels eventually signals (0, None).
SpecLive ==
    /\ Init /\ [][NextThreads]_vars
    /\ WF_vars(\E job \in BagToSet(batches), label \in EditLabels :
                   MeshGenerated(job, label))
    /\ WF_vars(BatchFinished)

\* update() on the control thread in two steps and the setter on another
\* thread in two steps, interleaved freely; the control thread takes
\* callbacks only between its calls.
NextRace ==
    \/ \E shape \in Shapes : ~ready /\ HandleSceneInit(shape)
    \/ UpdateBegin
    \/ UpdateFinish
    \/ \E value \in Volumes(EditLabels) : SetterCopy("Thread-1", value)
    \/ SetterMark("Thread-1")
    \/ \E job \in BagToSet(batches), label \in EditLabels :
           pc["MainThread"] = "idle" /\ MeshGenerated(job, label)
    \/ pc["MainThread"] = "idle" /\ BatchFinished

SpecRace == Init /\ [][NextRace]_vars

\* -------------------------------------------------------------- properties

\* C1: once every callback of every started batch has been delivered, the
\* scene's visible-object set equals the set of nonzero labels in the
\* volume, for every sequence of volume changes through the setter.
ReconciliationComplete ==
    (ready /\ outstanding(batches) = 0) => visible_objects = new_labels(_volume)

\* the pass of end-to-end scenario 2 is about to run: the volume holds
\* exactly {0,2,3}, the scene shows {2,4}, label 2 is cached, label 3 is not
Scenario2Pass ==
    /\ last'.ran
    /\ unique(_volume') = {0, 2, 3}
    /\ visible_objects = {2, 4}
    /\ has_object(2)
    /\ ~has_object(3)

\* C2 as stated: in scenario 2 the pass issues remove_object(4), issues
\* add_object(2) from the cache and starts a batch for exactly {3}.
Scenario2AsStated ==
    [][Scenario2Pass =>
          /\ <<"remove_object", 4>> \in last'.cmds
          /\ <<"add_object", 2, "cached">> \in last'.cmds
          /\ last'.generate = {3}
          /\ BagIn({3}, batches')]_vars

\* C2 amended: in scenario 2 the pass issues remove_object(4) and
\* set_busy(True) and nothing else (no add_object: label 2 is already
\* visible and stays so), and starts a batch for exactly {3}.
Scenario2 ==
    [][Scenario2Pass =>
          /\ last'.cmds = {<<"remove_object", 4>>, <<"set_busy", "True">>}
          /\ last'.generate = {3}
          /\ BagIn({3}, batches')
          /\ visible_objects' = {2}]_vars

Scenario2Witness ==
    /\ last.ran
    /\ unique(_volume) = {0, 2, 3}
    /\ last.cmds = {<<"remove_object", 4>>, <<"set_busy", "True">>}
    /\ last.generate = {3}
    /\ visible_objects = {2}
    /\ has_object(2) /\ ~has_object(3)

\* C3: in every dirty pass over a volume that contains CURRENT_LABEL, the
\* label is in the batch handed to the mesh worker and no add_object from
\* the cache is issued for it.
CurrentLabelRegenerated ==
    (last.ran /\ CURRENT_LABEL \in unique(_volume)) =>
        /\ CURRENT_LABEL \in last.generate
        /\ BagIn(last.generate, batches)
        /\ <<"add_object", CURRENT_LABEL, "cached">> \notin last.cmds

\* a pass over a volume with CURRENT_LABEL whose geometry was cached
CurrentLabelWitness ==
    /\ last.ran
    /\ CURRENT_LABEL \in unique(_volume)
    /\ has_object(CURRENT_LABEL)
    /\ <<"add_object", 2, "cached">> \in last.cmds

\* C4: at most one started batch is waiting for its (0, None) callback.
AtMostOneBatch == outstanding(batches) <= 1

\* C5: a public operation that leaves the buffer with other content than
\* it held before has set the dirty flag.
DirtyOnEveryChange ==
    [][(/\ ready
        /\ last'.op \in {"volume.setter", "clear", "setup", "_handle_scene_init"}
        /\ _volume' # _volume) => last'.dirtied]_vars

\* C6: setting a value equal element-wise to the current volume changes
\* nothing and issues nothing; setting a value that differs in an element
\* copies it in, sets dirty and runs a pass at once.
SetterIdempotent ==
    [][(last'.op = "volume.setter" /\ last'.thread = "MainThread") =>
          IF \A idx \in DOMAIN volume : last'.arg[idx] = volume[idx]
          THEN /\ UNCHANGED <<_volume, _dirty, _mesh_thread, scene, batches>>
               /\ ~last'.dirtied /\ ~last'.ran
               /\ last'.cmds = {} /\ last'.generate = {}
          ELSE /\ _volume' = assign_all(transpose(last'.arg))
               /\ last'.dirtied /\ last'.ran
               /\ ~_dirty']_vars

\* the setter was called with the volume's current, nonzero value
SetterIdempotentWitness ==
    /\ last.op = "volume.setter"
    /\ ~last.dirtied
    /\ last.arg = volume
    /\ new_labels(_volume) # {}

InUint8Range(value) == \A idx \in DOMAIN value : value[idx] \in 0..(UINT8_RANGE - 1)

\* C7 as stated: reading `volume` right after setting it to any integer
\* array V returns V, also for values at and beyond the 8-bit range.
RoundTripAsStated == (last.op = "volume.setter") => volume = last.arg

\* C7 amended: reading `volume` right after setting it to an array V whose
\* values all lie in 0..255 returns V.
RoundTrip ==
    (last.op = "volume.setter" /\ InUint8Range(last.arg)) => volume = last.arg

\* the setter has copied in an array that is not uniform
RoundTripWitness ==
    /\ last.op = "volume.setter"
    /\ last.dirtied
    /\ InUint8Range(last.arg)
    /\ \E i, j \in DOMAIN last.arg : last.arg[i] # last.arg[j]

\* C8: a caller's write to the array read from `volume` never changes the
\* internal buffer.
ViewWriteIsolated ==
    [][(\E idx \in ExternalIndices, x \in Labels : WriteView(idx, x)) =>
          _volume' = _volume]_vars

\* C9: `available` and `used` are disjoint and their union is [1, N).
AllocatorPartition ==
    /\ _available \cap _used = {}
    /\ _available \cup _used = 1..(_n - 1)

\* a label was freed while others stay in use
AllocatorPartitionWitness ==
    /\ last.op = "free"
    /\ last.arg \in _available
    /\ _used # {}
    /\ \E a \in _available : \E u \in _used : a < u

\* C10: with `available` non-empty, request() returns its smallest member
\* and moves exactly that label from `available` to `used`.
RequestReturnsMinimum ==
    [][(last'.op = "request" /\ _available # {}) =>
          /\ ~last'.raised
          /\ last'.ret \in _available
          /\ \A label \in _available : last'.ret <= label
          /\ _available' = _available \ {last'.ret}
          /\ _used' = _used \cup {last'.ret}]_vars

\* request() returned a freed label below the labels still in use
RequestReturnsMinimumWitness ==
    /\ last.op = "request"
    /\ last.ret > 0
    /\ \E u \in _used : last.ret < u

\* C11: request(), alone or through addObject(), raises exactly when
\* `available` is empty: with a fresh allocator of capacity N the N-th call
\* in a row is the first to fail.  A failing call leaves `available`, `used`
\* and the color map as they were, and the call after a free of a used
\* label succeeds.
Exhaustion ==
    [][(last'.op \in {"request", "addObject"}) =>
          /\ last'.raised <=> (_available = {})
          /\ (_used = 1..Cardinality(_used)) =>
                 /\ last'.raised <=> (Cardinality(_used) = _n - 1)
                 /\ ~last'.raised => last'.ret = Cardinality(_used) + 1
          /\ last'.raised => UNCHANGED <<_available, _used, _cmap>>
          /\ (last.op \in {"free", "removeObject"} /\ last.arg \in _available)
                 => ~last'.raised]_vars

\* the 256th addObject() in a row has failed
ExhaustionWitness ==
    /\ last.op = "addObject"
    /\ last.raised
    /\ _used = 1..(NOBJECTS - 1)
    /\ DOMAIN _cmap = 1..(NOBJECTS - 1)

\* C12: free(label) of a used label moves exactly that label from `used` to
\* `available`; free(label) of a label that is not used raises nothing and
\* changes neither set, so a second free of the same label changes nothing.
FreeMovesUsedOnly ==
    [][(last'.op \in {"free", "removeObject"}) =>
          /\ ~last'.raised
          /\ IF last'.arg \in _used
             THEN /\ _used' = _used \ {last'.arg}
                  /\ _available' = _available \cup {last'.arg}
             ELSE UNCHANGED <<_available, _used>>
          /\ (last.op \in {"free", "removeObject"} /\ last.arg = last'.arg)
                 => UNCHANGED <<_available, _used>>]_vars

\* a label outside [1, N) was freed while labels were in use
FreeMovesUsedOnlyWitness ==
    /\ last.op = "free"
    /\ last.arg \notin 1..(_n - 1)
    /\ _used # {}
    /\ _available # {}

ThreadGuard ==
    [][(last'.thread # "MainThread") =>
          /\ last'.cmds = {} /\ last'.generate = {} /\ ~last'.ran
          /\ UNCHANGED <<scene, batches, _mesh_thread>>
          /\ (last'.op \in {"update", "_on_mesh_generated"}) =>
                 /\ last'.raised
                 /\ UNCHANGED <<_dirty, _volume>>]_vars

\* update() was called off the control thread with a pass pending
ThreadGuardWitness ==
    /\ last.op = "update"
    /\ last.thread = "Thread-1"
    /\ last.raised
    /\ _dirty
    /\ new_labels(_volume) # visible_objects

\* C15: update() on the control thread with the dirty flag false, alone or
\* right after setup() in the scene-initialisation slot, issues no scene
\* command, starts no batch and leaves the dirty flag false and the scene,
\* the volume and the worker handle untouched.
SkipIfClean ==
    [][(/\ last'.op \in {"update", "_handle_scene_init"}
        /\ last'.thread = "MainThread"
        /\ ~_dirty) =>
          /\ ~last'.raised /\ ~last'.ran
          /\ last'.cmds = {} /\ last'.generate = {}
          /\ ~_dirty'
          /\ UNCHANGED <<scene, batches, _mesh_thread>>
          /\ (last'.op = "update") => UNCHANGED _volume]_vars

\* update() returned as clean on the control thread, after passes had run
SkipIfCleanWitness ==
    /\ last.op = "update"
    /\ last.thread = "MainThread"
    /\ ~last.ran
    /\ ~_dirty
    /\ visible_objects # {}

\* C16: a dirty pass over the volume's nonzero labels `new`, the visible
\* set `old` and the cache issues remove_object for exactly old - new;
\* every label of new - (old - {CURRENT_LABEL}) is either added from the
\* cache (cached and not CURRENT_LABEL) or put in the batch (otherwise),
\* and no other label is; one batch with the whole generate set is started
\* and set_busy(True) issued iff that set is non-empty.
Dispatch ==
    [][last'.ran =>
          LET new    == unique(_volume') \ {0}
              old    == visible_objects
              to_add == new \ (old \ {CURRENT_LABEL})
              cached == {label \in to_add :
                            label \in cache /\ label # CURRENT_LABEL}
              cmds   == last'.cmds
          IN  /\ {c \in cmds : c[1] = "remove_object"}
                    = {<<"remove_object", label>> : label \in old \ new}
              /\ {c \in cmds : c[1] = "add_object"}
                    = {<<"add_object", label, "cached">> : label \in cached}
              /\ last'.generate = to_add \ cached
              /\ 0 \notin last'.generate
              /\ IF last'.generate # {}
                 THEN /\ <<"set_busy", "True">> \in cmds
                      /\ busy'
                      /\ batches' = batches (+) SetToBag({last'.generate})
                 ELSE /\ {c \in cmds : c[1] = "set_busy"} = {}
                      /\ UNCHANGED <<busy, batches, _mesh_thread>>]_vars

\* a pass removed a label and regenerated the cached CURRENT_LABEL
DispatchWitness ==
    /\ last.ran
    /\ <<"remove_object", 2>> \in last.cmds
    /\ last.generate = {CURRENT_LABEL}
    /\ has_object(CURRENT_LABEL)
    /\ has_object(2)

\* C17: a pass changes the scene's visible-object set only through its
\* remove_object and add_object commands, so CURRENT_LABEL, visible and in
\* the volume before a pass, is still visible when update() returns.
CurrentLabelStaysVisible ==
    [][last'.ran =>
          LET removed == {c[2] : c \in {d \in last'.cmds : d[1] = "remove_object"}}
              added   == {c[2] : c \in {d \in last'.cmds : d[1] = "add_object"}}
          IN  /\ visible_objects' = (visible_objects \ removed) \cup added
              /\ (/\ CURRENT_LABEL \in visible_objects
                  /\ CURRENT_LABEL \in unique(_volume'))
                    => CURRENT_LABEL \in visible_objects']_vars

\* C18: a callback with label 0 and no mesh clears the busy state and adds
\* no object; any other callback issues add_object(label, mesh) and leaves
\* the busy state alone; with a worker that goes on delivering, a busy
\* scene eventually is not busy.
CompletionCallback ==
    /\ [][(last'.op = "_on_mesh_generated" /\ last'.thread = "MainThread") =>
             IF last'.arg = <<0, "None">>
             THEN /\ ~busy'
                  /\ UNCHANGED <<visible_objects, cache>>
                  /\ last'.cmds = {<<"set_busy", "False">>}
             ELSE /\ busy' = busy
                  /\ last'.cmds = {<<"add_object", last'.arg[1], last'.arg[2]>>}
                  /\ visible_objects' = visible_objects \cup {last'.arg[1]}
                  /\ cache' = cache \cup {last'.arg[1]}]_vars
    /\ (busy ~> ~busy)

\* the (0, None) callback of a batch has cleared the busy state after the
\* batch's meshes were added
CompletionCallbackWitness ==
    /\ last.op = "_on_mesh_generated"
    /\ last.arg = <<0, "None">>
    /\ ~busy
    /\ visible_objects # {}
    /\ outstanding(batches) = 0

\* C20: while a started batch has not delivered its (0, None) callback, the
\* scene's busy state is true.
BusyWhileOutstanding == (outstanding(batches) > 0) => busy

\* C19: update() clears the dirty flag before it reads the volume, so a
\* setter call that changes the buffer after the flag was cleared leaves the
\* flag true when the pass ends, and the next update() on the control
\* thread does not return as clean but runs a pass over the volume as it
\* then is.
MutationNotLost ==
    [][/\ (pc["MainThread"] = "pass" /\ last'.op = "volume.setter"
             /\ last'.dirtied)
             => (_dirty' /\ pc'["MainThread"] = "pass")
       /\ (pc["Thread-1"] = "setter" /\ pc'["Thread-1"] = "idle") => _dirty'
       /\ (pc["MainThread"] = "pass" /\ pc'["MainThread"] = "idle" /\ _dirty)
             => _dirty'
       /\ (pc["MainThread"] = "idle" /\ _dirty /\ last'.thread = "MainThread"
             /\ last'.op \in {"update", "update:dirty=False"})
             => (pc'["MainThread"] = "pass" /\ ~_dirty')
       /\ (pc["MainThread"] = "pass" /\ pc'["MainThread"] = "idle") =>
             /\ last'.ran
             /\ visible_objects' \subseteq new_labels(_volume)
             /\ new_labels(_volume) \subseteq visible_objects' \cup last'.generate
             /\ (last'.generate # {}) => BagIn(last'.generate, batches')]_vars

\* a pass has ended with the flag set again by a setter call made during it
MutationNotLostWitness ==
    /\ pc["MainThread"] = "idle"
    /\ last.op = "update"
    /\ last.ran
    /\ _dirty
    /\ new_labels(_volume) # {}

=============================================================================
